---- MODULE Spec2Model ----
(***************************************************************************)
(* The cross-service authentication gate of sleepr: JwtAuthGuard           *)
(* (libs/common/src/auth/jwt-auth.guard.ts, both variants), the Authority's *)
(* `authenticate` handler and the CurrentUser accessor.                     *)
(*                                                                         *)
(* JavaScript optional values are modelled as sequences of length at most  *)
(* one: None is `undefined`, Some(v) is the value v.                       *)
(***************************************************************************)
EXTENDS Integers, Sequences, FiniteSets, TLC

\* number of incoming requests that may be pending at the same time
NumRequests == 2

Requests == 1..NumRequests

\* number of incoming requests at the GraphQL gateway
NumGateway == 2

GatewayRequests == 1..NumGateway

\* subgraph requests the gateway issues for one incoming request
MaxFetches == 2

\* number of calls that may be in progress at the Authority at the same time
NumProcs == 2

Procs == 1..NumProcs

\* number of invocations of the CurrentUser accessor
NumAccessorCalls == 2

AccessorCalls == 1..NumAccessorCalls

\* number of repository calls that may be in progress at the same time
NumCalls == 2

Calls == 1..NumCalls

\* number of reservations the table may come to hold in a run
MaxRows == 2

None == <<>>
Some(v) == <<v>>

\* JavaScript truthiness of an optional string: undefined and '' are falsy
Truthy(s) == s # None /\ s[1] # ""

InSeq(x, s) == \E i \in 1..Len(s) : s[i] = x

---------------------------------------------------------------------------
(* Inputs *)

\* the credential-carrying fields of an incoming request:
\* request.cookies?.Authentication and request.headers?.authentication
RequestShapes ==
    { [cookie |-> None,         header |-> None],
      [cookie |-> Some(""),     header |-> None],
      [cookie |-> None,         header |-> Some("tokA")],
      [cookie |-> Some(""),     header |-> Some("tokB")],
      [cookie |-> Some("tokX"), header |-> Some("tokA")],
      [cookie |-> Some("tokD"), header |-> None] }

\* which JwtAuthGuard protects the handler: the variant that reads the
\* 'roles' metadata, the variant without role metadata, or no guard at all
GuardVariants == {"roles", "plain", "none"}

\* reflector.get('roles', handler): undefined when nothing is declared
RoleRequirements ==
    {None, Some(<<>>), Some(<<"A", "B">>), Some(<<"B", "C">>)}

---------------------------------------------------------------------------
(* The Authority *)

\* bcrypt.hash(password, 10), compared by bcrypt.compare
Hash(password) == <<"bcrypt", password>>

\* the content of the Authority's user store when the services start
Users ==
    { [id |-> 1, email |-> "a@test.com", password |-> Hash("pw1"),
       roles |-> Some(<<[name |-> "A"]>>)],
      [id |-> 2, email |-> "b@test.com", password |-> Hash("pw2"),
       roles |-> None],
      [id |-> 4, email |-> "d@test.com", password |-> Hash("pw4"),
       roles |-> Some(<<>>)] }

\* the subject id embedded in a credential the Authority signed; 0 when the
\* signature or the expiry check fails
TokenSubject(jwt) ==
    IF jwt = "tokA" THEN 1
    ELSE IF jwt = "tokB" THEN 2
    ELSE IF jwt = "tokC" THEN 3
    ELSE IF jwt = "tokD" THEN 4
    ELSE 0

---------------------------------------------------------------------------
(* State *)

VARIABLES
    req,            \* the requests, by id
    handlerRoles,   \* the 'roles' metadata of the protected handler
    store,          \* the Authority's user store
    booking,        \* ReservationsService.create per request
    reservations,   \* the reservations store
    gw,             \* the requests that reach the GraphQL gateway, by id
    ex,             \* a request in front of the Authority's extractor
    proc,           \* the calls in progress at the Authority, by id
    uniqueEmail,    \* whether the users table has a unique index on email
    acc,            \* the calls of the CurrentUser accessor, by id
    repo,           \* the reservations table and its auto-increment
    calls           \* the repository calls in progress, by id

vars == <<req, handlerRoles, store, booking, reservations, gw, ex, proc,
          uniqueEmail, acc, repo,
                   calls>>

\* what the accessor's own steps leave alone, besides req
outside_acc == <<handlerRoles, store, booking, reservations, gw, ex, proc,
                 uniqueEmail, repo, calls>>

\* what the repository's own steps leave alone
outside_repo == <<req, handlerRoles, store, booking, reservations, gw, ex,
                  proc, uniqueEmail, acc>>

\* what the guard's own steps leave alone
outside == <<handlerRoles, store, booking, reservations, gw, ex, proc,
             uniqueEmail, acc, repo,
                   calls>>

NotCalled == [kind |-> "notCalled", value |-> None]

IdleRequest ==
    [ pc     |-> "idle",
      cookie |-> None,
      header |-> None,
      guard  |-> "none",
      jwt    |-> None,      \* the credential canActivate extracted
      net    |-> "none",    \* the authenticate call: none, pending, lost
      sends  |-> 0,         \* authenticate calls issued for this request
      result |-> "none",    \* what canActivate yields: none, true, false, throw
      err    |-> "none",    \* the error catchError received
      user   |-> None,      \* request.user
      trace  |-> <<>>,      \* the guard's steps, in the order they ran
      got    |-> NotCalled  \* what the CurrentUser accessor produced
    ]

NoBooking == [pc |-> "none", email |-> None, charge |-> None]

\* the execution context handed to the CurrentUser accessor, and what the
\* accessor made of it
NoAccess ==
    [ pc      |-> "idle",
      type    |-> "none",   \* context.getType(): http or graphql
      user    |-> None,     \* request.user of an http context
      depth   |-> 0,        \* graphql: 0 no context argument, 1 no req,
                            \* 2 no headers, 3 headers present
      header  |-> [t |-> "undefined", v |-> None],  \* req.headers.user
      out     |-> [kind |-> "none", value |-> None]
    ]

\* the reservations table before any reservation is made
EmptyTable == [rows |-> {}, nextId |-> 1]

\* a filter or a partial entity that names no field
NoFields == [id |-> None, invoiceId |-> None, userId |-> None]

NoReply == [kind |-> "none", error |-> "none", entity |-> None]

IdleCall ==
    [ pc      |-> "idle",
      op      |-> "none",    \* create, findOneAndUpdate or findOneAndDelete
      where   |-> NoFields,
      partial |-> NoFields,
      matched |-> {},        \* the rows the filter matched when the call ran
      created |-> NoReply,   \* what create returned
      out     |-> NoReply    \* what the call, or the get after create, gave
    ]

IdleProc ==
    [ pc       |-> "idle",
      op       |-> "none",    \* create, verifyUser or authenticate
      email    |-> "",
      password |-> "",
      token    |-> "",
      existed  |-> FALSE,     \* the email was registered when create began
      out      |-> [kind |-> "none", error |-> "none", user |-> None],
      caller   |-> IdleRequest  \* the request of the guard that called
    ]

NoOutcome == [kind |-> "none", detail |-> "none"]

\* JavaScript values as typeof sees them
Undef == [t |-> "undefined", v |-> ""]
Str(x) == [t |-> "string", v |-> x]
Num(x) == [t |-> "number", v |-> x]

NotExtracted == [kind |-> "notRun", value |-> Undef]

\* no request is in front of the extractor
NoExtraction ==
    [variant |-> "none", cookies |-> None, field |-> Undef, headers |-> None,
     out |-> NotExtracted]

IdleGateway ==
    [ pc      |-> "idle",
      header  |-> None,      \* req.headers?.authentication
      net     |-> "none",    \* the authenticate call: none, pending, lost
      sends   |-> 0,         \* authenticate calls issued for this request
      ctxUser |-> None,      \* context.user
      out     |-> NoOutcome, \* what authContext produced
      fetches |-> <<>>       \* the subgraph requests issued for it
    ]

Init ==
    /\ req = [r \in Requests |-> IdleRequest]
    /\ handlerRoles \in RoleRequirements
    /\ store = Users
    /\ booking = [r \in Requests |-> NoBooking]
    /\ reservations = <<>>
    /\ gw = [g \in GatewayRequests |-> IdleGateway]
    /\ ex = NoExtraction
    /\ proc = [p \in Procs |-> IdleProc]
    /\ uniqueEmail = TRUE
    /\ acc = [k \in AccessorCalls |-> NoAccess]
    /\ repo = EmptyTable
    /\ calls = [c \in Calls |-> IdleCall]

---------------------------------------------------------------------------
(* The Authority: authenticate *)

getUserFirstRow(id) ==
    IF \E u \in store : u.id = id
        THEN {u \in store : u.id = id}
        ELSE {u \in store : u.id = 1}

\* usersService.getUser({ id })
getUser(id) == {u \in store : u.id = id}

\* the 'authenticate' message handler behind the Authority's own guard, for
\* the payload { Authentication: jwt }: Some(identity), or None when the
\* guard rejects the call (no string credential, bad signature, unknown user)
authenticate(jwt) ==
    IF jwt = None THEN None
    ELSE IF getUser(TokenSubject(jwt[1])) = {} THEN None
    ELSE Some(CHOOSE u \in getUser(TokenSubject(jwt[1])) : TRUE)

---------------------------------------------------------------------------
(* JwtAuthGuard *)

\* request.cookies?.Authentication || request.headers?.authentication
ExtractJwt(cookie, header) == IF Truthy(cookie) THEN cookie ELSE header

MissingJwtNever(jwt) == FALSE

\* if (!jwt) return false
MissingJwt(jwt) == ~Truthy(jwt)

\* res.roles?.map((role) => role.name)
RoleNames(res) ==
    IF res.roles = None
        THEN None
        ELSE Some([i \in 1..Len(res.roles[1]) |-> res.roles[1][i].name])

RoleCheckAll(roles, res) ==
    IF roles = None THEN "ok"
    ELSE IF Len(roles[1]) = 0 THEN "Unauthorized"
    ELSE IF RoleNames(res) = None THEN "TypeError"
    ELSE IF \A i \in 1..Len(roles[1]) : InSeq(roles[1][i], RoleNames(res)[1])
        THEN "ok"
        ELSE "Unauthorized"

RoleCheckSkipAbsent(roles, res) ==
    IF roles = None THEN "ok"
    ELSE IF Len(roles[1]) = 0 THEN "Unauthorized"
    ELSE IF RoleNames(res) = None THEN "ok"
    ELSE IF \E i \in 1..Len(roles[1]) : InSeq(roles[1][i], RoleNames(res)[1])
        THEN "ok"
        ELSE "Unauthorized"

\* the condition of the tap callback: roles && !roles.some(...) throws
\* UnauthorizedException; calling includes on undefined is a TypeError
RoleCheck(roles, res) ==
    IF roles = None THEN "ok"
    ELSE IF Len(roles[1]) = 0 THEN "Unauthorized"
    ELSE IF RoleNames(res) = None THEN "TypeError"
    ELSE IF \E i \in 1..Len(roles[1]) : InSeq(roles[1][i], RoleNames(res)[1])
        THEN "ok"
        ELSE "Unauthorized"

CatchErrorRethrow(r, e) ==
    [r EXCEPT !.pc = "failed", !.result = "throw", !.net = "none", !.err = e]

CatchErrorRetry(r, e) ==
    IF r.sends < 2
        THEN [r EXCEPT !.net = "pending", !.sends = @ + 1, !.err = e,
                       !.trace = Append(@, "send")]
        ELSE [r EXCEPT !.pc = "denied", !.result = "false", !.net = "none",
                       !.err = e]

CatchErrorAllow(r, e) ==
    [r EXCEPT !.pc = "authorized", !.result = "true", !.net = "none",
              !.err = e]

\* catchError((err) => of(false))
CatchError(r, e) ==
    [r EXCEPT !.pc = "denied", !.result = "false", !.net = "none", !.err = e]

\* tap + map of the variant that evaluates roles
PipeRoles(r, res, roles) ==
    IF RoleCheck(roles, res) = "ok"
        THEN [r EXCEPT !.pc = "authorized", !.result = "true",
                       !.net = "none", !.user = Some(res),
                       !.trace = @ \o <<"reply", "roleCheck", "inject">>]
        ELSE CatchError([r EXCEPT !.trace = @ \o <<"reply", "roleCheck">>],
                        RoleCheck(roles, res))

\* tap + map of the variant without role metadata
PipePlain(r, res) ==
    [r EXCEPT !.pc = "authorized", !.result = "true", !.net = "none",
              !.user = Some(res), !.trace = @ \o <<"reply", "inject">>]

Pipe(r, res, roles) ==
    IF r.guard = "roles" THEN PipeRoles(r, res, roles) ELSE PipePlain(r, res)

\* the synchronous part of canActivate, up to the subscription that issues
\* the authenticate call
Activate(r) ==
    LET jwt == ExtractJwt(r.cookie, r.header) IN
    IF MissingJwt(jwt)
        THEN [r EXCEPT !.pc = "denied", !.result = "false", !.jwt = jwt,
                       !.trace = <<"extract">>]
        ELSE [r EXCEPT !.pc = "verifying", !.jwt = jwt, !.net = "pending",
                       !.sends = @ + 1, !.trace = <<"extract", "send">>]

---------------------------------------------------------------------------
(* CurrentUser *)

\* getCurrentUserByContext on an HTTP context: return request.user
getCurrentUserByContext(r) == [kind |-> "value", value |-> r.user]

---------------------------------------------------------------------------
(* Actions *)

\* a request reaches a handler
Arrive(i) ==
    /\ req[i].pc = "idle"
    /\ \E s \in RequestShapes, g \in GuardVariants :
          req' = [req EXCEPT ![i] = [@ EXCEPT !.pc = "arrived",
                                              !.cookie = s.cookie,
                                              !.header = s.header,
                                              !.guard = g]]
    /\ UNCHANGED outside

\* JwtAuthGuard.canActivate is called for the request
CanActivate(i) ==
    /\ req[i].pc = "arrived"
    /\ req[i].guard # "none"
    /\ req' = [req EXCEPT ![i] = Activate(@)]
    /\ UNCHANGED outside

AuthorityReplyCrossed(i) ==
    /\ req[i].pc = "verifying"
    /\ req[i].net = "pending"
    /\ \E j \in Requests :
          /\ req[j].net = "pending"
          /\ LET res == authenticate(req[j].jwt) IN
                req' = [req EXCEPT ![i] =
                          IF res = None
                              THEN CatchError(
                                       [@ EXCEPT !.trace = Append(@, "reply")],
                                       "rejected")
                              ELSE Pipe(@, res[1], handlerRoles)]
    /\ UNCHANGED outside

\* the Authority answers the authenticate call
AuthorityReply(i) ==
    /\ req[i].pc = "verifying"
    /\ req[i].net = "pending"
    /\ LET res == authenticate(req[i].jwt) IN
          req' = [req EXCEPT ![i] =
                    IF res = None
                        THEN CatchError([@ EXCEPT !.trace = Append(@, "reply")],
                                        "rejected")
                        ELSE Pipe(@, res[1], handlerRoles)]
    /\ UNCHANGED outside

\* the transport reports a failure of the authenticate call
TransportError(i) ==
    /\ req[i].pc = "verifying"
    /\ req[i].net = "pending"
    /\ req' = [req EXCEPT ![i] =
                 CatchError([@ EXCEPT !.trace = Append(@, "reply")],
                            "unreachable")]
    /\ UNCHANGED outside

\* the authenticate call is never answered
AuthoritySilent(i) ==
    /\ req[i].pc = "verifying"
    /\ req[i].net = "pending"
    /\ req' = [req EXCEPT ![i].net = "lost"]
    /\ UNCHANGED outside

\* the handler runs and its @CurrentUser() parameter is resolved
InvokeHandler(i) ==
    /\ \/ req[i].pc = "authorized"
       \/ req[i].pc = "arrived" /\ req[i].guard = "none"
    /\ req' = [req EXCEPT ![i] =
                 [@ EXCEPT !.pc = "handled",
                           !.got = getCurrentUserByContext(req[i])]]
    /\ UNCHANGED outside

Next ==
    \E i \in Requests :
        \/ Arrive(i)
        \/ CanActivate(i)
        \/ AuthorityReply(i)
        \/ TransportError(i)
        \/ AuthoritySilent(i)
        \/ InvokeHandler(i)

Spec == Init /\ [][Next]_vars

\* the guard's and the handler's own steps always run; whether the Authority
\* or the transport ever answers is not under the program's control
FairSpec == Spec /\ WF_vars(Next)

---------------------------------------------------------------------------
(* ReservationsService.create behind the guard *)

\* ids the payments service may return for a charge
InvoiceIds == {"pi_1", "pi_2"}

\* create(dto, { email, id: userId }): destructuring an absent user is a
\* TypeError; otherwise create_charge is sent with the user's email
StartCreate(user) ==
    IF user = None
        THEN [pc |-> "crashed", email |-> None, charge |-> None]
        ELSE [pc |-> "charging", email |-> Some(user[1].email),
              charge |-> None]

PersistReservationNoUserId(rs, i, user, invoiceId) ==
    Append(rs, [id |-> Len(rs) + 1, userId |-> 0,
                invoiceId |-> invoiceId, request |-> i])

\* reservationsRepository.create({ ..., invoiceId: response.id, userId })
PersistReservation(rs, i, user, invoiceId) ==
    Append(rs, [id |-> Len(rs) + 1, userId |-> user.id,
                invoiceId |-> invoiceId, request |-> i])

\* the create-reservation handler starts with the resolved @CurrentUser()
CreateReservation(i) ==
    /\ req[i].pc = "handled"
    /\ booking[i].pc = "none"
    /\ booking' = [booking EXCEPT ![i] = StartCreate(req[i].got.value)]
    /\ UNCHANGED <<req, handlerRoles, store, reservations, gw, ex, proc,
                   uniqueEmail, acc, repo,
                   calls>>

\* the payments service answers create_charge; the reservation is saved
ChargeReply(i) ==
    /\ booking[i].pc = "charging"
    /\ \E inv \in InvoiceIds :
          /\ reservations' = PersistReservation(reservations, i,
                                                req[i].got.value[1], inv)
          /\ booking' = [booking EXCEPT ![i].pc = "persisted",
                                        ![i].charge = Some(inv)]
    /\ UNCHANGED <<req, handlerRoles, store, gw, ex, proc, uniqueEmail, acc, repo,
                   calls>>

ChargeErrorPersist(i) ==
    /\ booking[i].pc = "charging"
    /\ booking' = [booking EXCEPT ![i].pc = "failed"]
    /\ reservations' = PersistReservation(reservations, i,
                                          req[i].got.value[1], "")
    /\ UNCHANGED <<req, handlerRoles, store, gw, ex, proc, uniqueEmail, acc,
                   repo, calls>>

\* create_charge fails: the map callback never runs
ChargeError(i) ==
    /\ booking[i].pc = "charging"
    /\ booking' = [booking EXCEPT ![i].pc = "failed"]
    /\ UNCHANGED <<req, handlerRoles, store, reservations, gw, ex, proc,
                   uniqueEmail, acc, repo,
                   calls>>

BookingNext ==
    \E i \in Requests :
        \/ Arrive(i)
        \/ CanActivate(i)
        \/ AuthorityReply(i)
        \/ TransportError(i)
        \/ AuthoritySilent(i)
        \/ InvokeHandler(i)
        \/ CreateReservation(i)
        \/ ChargeReply(i)
        \/ ChargeError(i)

\* the guard in front of the create-reservation handler
BookingSpec == Init /\ [][BookingNext]_vars

---------------------------------------------------------------------------
(* The GraphQL gateway and its subgraphs *)

\* req.headers?.authentication of a request at the gateway
GatewayHeaders == {None, Some("tokA"), Some("tokB"), Some("tokX")}

\* JSON.stringify of an identity: a key whose value is undefined is left out
JSONstringify(u) ==
    IF u.roles = None
        THEN [id |-> u.id, email |-> u.email, password |-> u.password]
        ELSE [id |-> u.id, email |-> u.email, password |-> u.password,
              roles |-> u.roles[1]]

\* JSON.parse of a serialized identity: a key that is missing reads undefined
JSONparse(j) ==
    [id |-> j.id, email |-> j.email, password |-> j.password,
     roles |-> IF "roles" \in DOMAIN j THEN Some(j.roles) ELSE None]

AuthContextDropped(g, res) ==
    [g EXCEPT !.pc = "context", !.net = "none",
              !.out = [kind |-> "context", detail |-> "none"]]

\* return { user }
AuthContextResolved(g, res) ==
    [g EXCEPT !.pc = "context", !.net = "none", !.ctxUser = Some(res),
              !.out = [kind |-> "context", detail |-> "none"]]

\* catch (error) { throw new UnauthorizedException(error) }
AuthContextThrow(g, e) ==
    [g EXCEPT !.pc = "thrown", !.net = "none",
              !.out = [kind |-> "Unauthorized", detail |-> e]]

\* willSendRequest: the 'user' header of a subgraph request
willSendRequest(ctxUser) ==
    IF ctxUser # None THEN Some(JSONstringify(ctxUser[1])) ELSE None

\* getCurrentUserByContext on a GraphQL context, from req.headers.user
getCurrentUserByGraphQLContext(userHeader) ==
    IF userHeader = None
        THEN [kind |-> "error", value |-> None]
        ELSE [kind |-> "value", value |-> Some(JSONparse(userHeader[1]))]

\* a request reaches the gateway
GatewayArrive(g) ==
    /\ gw[g].pc = "idle"
    /\ \E h \in GatewayHeaders :
          gw' = [gw EXCEPT ![g] = [@ EXCEPT !.pc = "arrived", !.header = h]]
    /\ UNCHANGED <<req, handlerRoles, store, booking, reservations, ex, proc,
                   uniqueEmail, acc, repo,
                   calls>>

\* authContext sends authenticate with whatever the header holds
AuthContext(g) ==
    /\ gw[g].pc = "arrived"
    /\ gw' = [gw EXCEPT ![g] = [@ EXCEPT !.pc = "verifying",
                                         !.net = "pending",
                                         !.sends = @ + 1]]
    /\ UNCHANGED <<req, handlerRoles, store, booking, reservations, ex, proc,
                   uniqueEmail, acc, repo,
                   calls>>

\* the Authority answers the gateway's authenticate call
GatewayReply(g) ==
    /\ gw[g].pc = "verifying"
    /\ gw[g].net = "pending"
    /\ LET res == authenticate(gw[g].header) IN
          gw' = [gw EXCEPT ![g] =
                    IF res = None
                        THEN AuthContextThrow(@, "rejected")
                        ELSE AuthContextResolved(@, res[1])]
    /\ UNCHANGED <<req, handlerRoles, store, booking, reservations, ex, proc,
                   uniqueEmail, acc, repo,
                   calls>>

\* the transport reports a failure of the gateway's authenticate call
GatewayTransportError(g) ==
    /\ gw[g].pc = "verifying"
    /\ gw[g].net = "pending"
    /\ gw' = [gw EXCEPT ![g] = AuthContextThrow(@, "unreachable")]
    /\ UNCHANGED <<req, handlerRoles, store, booking, reservations, ex, proc,
                   uniqueEmail, acc, repo,
                   calls>>

\* the gateway's authenticate call is never answered
GatewaySilent(g) ==
    /\ gw[g].pc = "verifying"
    /\ gw[g].net = "pending"
    /\ gw' = [gw EXCEPT ![g].net = "lost"]
    /\ UNCHANGED <<req, handlerRoles, store, booking, reservations, ex, proc,
                   uniqueEmail, acc, repo,
                   calls>>

\* the gateway issues a subgraph request for the incoming request
SubgraphRequest(g) ==
    /\ gw[g].pc = "context"
    /\ Len(gw[g].fetches) < MaxFetches
    /\ gw' = [gw EXCEPT ![g].fetches =
                 Append(@, [userHeader |-> willSendRequest(gw[g].ctxUser),
                            got |-> NotCalled])]
    /\ UNCHANGED <<req, handlerRoles, store, booking, reservations, ex, proc,
                   uniqueEmail, acc, repo,
                   calls>>

\* a subgraph resolver runs and its @CurrentUser() parameter is resolved
SubgraphResolve(g) ==
    /\ \E k \in 1..Len(gw[g].fetches) :
          /\ gw[g].fetches[k].got = NotCalled
          /\ gw' = [gw EXCEPT ![g].fetches[k].got =
                       getCurrentUserByGraphQLContext(
                           gw[g].fetches[k].userHeader)]
    /\ UNCHANGED <<req, handlerRoles, store, booking, reservations, ex, proc,
                   uniqueEmail, acc, repo,
                   calls>>

GatewayNext ==
    \E g \in GatewayRequests :
        \/ GatewayArrive(g)
        \/ AuthContext(g)
        \/ GatewayReply(g)
        \/ GatewayTransportError(g)
        \/ GatewaySilent(g)
        \/ SubgraphRequest(g)
        \/ SubgraphResolve(g)

GatewaySpec == Init /\ [][GatewayNext]_vars

---------------------------------------------------------------------------
(* JwtStrategy: the Authority's credential extractor *)

\* the two JwtStrategy variants: with and without the header fallback
ExtractorVariants == {"header", "noHeader"}

\* request.cookies: no map, or a map and its Authentication entry
CookieMaps == {None, Some(Undef), Some(Str("tokA")), Some(Num("7"))}

\* request.Authentication
FieldValues == {Undef, Str("tokB"), Num("8")}

\* request.headers: no map, or a map and its Authentication entry
HeaderMaps == {None, Some(Undef), Some(Str("tokC")), Some(Num("9"))}

Returned(v) == [kind |-> "value", value |-> v]
ReturnedNull == [kind |-> "null", value |-> Undef]
ThrownTypeError == [kind |-> "throw", value |-> Undef]

\* request?.cookies?.Authentication
CookieToken(r) == IF r.cookies = None THEN Undef ELSE r.cookies[1]

\* jwtFromRequest with the header fallback: request.headers is read
\* without ?. and its Authentication entry is used when it is truthy
jwtFromRequest(r) ==
    IF CookieToken(r).t = "string" THEN Returned(CookieToken(r))
    ELSE IF r.field.t = "string" THEN Returned(r.field)
    ELSE IF r.headers = None THEN ThrownTypeError
    ELSE IF r.headers[1] # Undef THEN Returned(r.headers[1])
    ELSE ReturnedNull

\* jwtFromRequest without the header fallback
jwtFromRequestNoHeader(r) ==
    IF CookieToken(r).t = "string" THEN Returned(CookieToken(r))
    ELSE IF r.field.t = "string" THEN Returned(r.field)
    ELSE ReturnedNull

ExtractorInit ==
    /\ req = [r \in Requests |-> IdleRequest]
    /\ handlerRoles = None
    /\ store = Users
    /\ booking = [r \in Requests |-> NoBooking]
    /\ reservations = <<>>
    /\ gw = [g \in GatewayRequests |-> IdleGateway]
    /\ proc = [p \in Procs |-> IdleProc]
    /\ uniqueEmail = TRUE
    /\ acc = [k \in AccessorCalls |-> NoAccess]
    /\ repo = EmptyTable
    /\ calls = [c \in Calls |-> IdleCall]
    /\ ex \in [variant : ExtractorVariants, cookies : CookieMaps,
               field : FieldValues, headers : HeaderMaps,
               out : {NotExtracted}]

\* passport-jwt calls the strategy's extractor on the request
Extract ==
    /\ ex.out = NotExtracted
    /\ ex' = [ex EXCEPT !.out = IF ex.variant = "header"
                                    THEN jwtFromRequest(ex)
                                    ELSE jwtFromRequestNoHeader(ex)]
    /\ UNCHANGED <<req, handlerRoles, store, booking, reservations, gw, proc,
                   uniqueEmail, acc, repo,
                   calls>>

ExtractorNext == Extract

ExtractorSpec == ExtractorInit /\ [][ExtractorNext]_vars

---------------------------------------------------------------------------
(* The Authority: UsersService over the user store *)

\* the emails and passwords the callers of the Authority supply
Emails == {"a@test.com", "b@test.com", "c@test.com"}
Passwords == {"pw1", "bad"}
Tokens == {"tokA", "tokC", "tokX"}

Thrown(e) == [kind |-> "error", error |-> e, user |-> None]
Resolved(u) == [kind |-> "value", error |-> "none", user |-> Some(u)]

\* AbstractRepository.findOne({ email }): the rows the query may return, or
\* NotFoundException when there is none
findOne(email) ==
    IF {u \in store : u.email = email} = {}
        THEN {Thrown("NotFoundException: Entity was not found")}
        ELSE {Resolved(u) : u \in {v \in store : v.email = email}}

\* a query that fails in the database or on the connection
QueryFailed == Thrown("QueryFailedError")

\* validateCreateUser after its lookup gave r: every error is caught and
\* the method returns; a row makes it throw
validateCreateUser(r) ==
    IF r.kind = "error"
        THEN "return"
        ELSE "UnprocessableEntityException: User already exists"

\* the id a generated primary key gives the next row
NextUserId ==
    1 + CHOOSE n \in {u.id : u \in store} : \A u \in store : u.id <= n

\* the entity usersRepository.create receives and the id the store gives it
NewUser(email, password) ==
    [id |-> NextUserId, email |-> email,
     password |-> Hash(password), roles |-> None]

\* verifyUser after usersRepository.findOne({ email }) gave r
verifyUser(r, password) ==
    IF r.kind = "error" THEN r
    ELSE IF r.user[1].password # Hash(password)
        THEN Thrown("UnauthorizedException: Invalid credentials")
        ELSE r

\* the request of a guard that calls authenticate with the credential
CallerRequest(token, g) ==
    Activate([IdleRequest EXCEPT !.pc = "arrived", !.header = Some(token),
                                 !.guard = g])

\* what the calling guard makes of the Authority's answer
CallerOutcome(r, res) ==
    IF res = None
        THEN CatchError([r EXCEPT !.trace = Append(@, "reply")], "rejected")
        ELSE Pipe(r, res[1], handlerRoles)

AuthorityInit ==
    /\ req = [i \in Requests |-> IdleRequest]
    /\ handlerRoles = None
    /\ store = Users
    /\ booking = [i \in Requests |-> NoBooking]
    /\ reservations = <<>>
    /\ gw = [g \in GatewayRequests |-> IdleGateway]
    /\ ex = NoExtraction
    /\ proc = [p \in Procs |-> IdleProc]
    /\ uniqueEmail \in BOOLEAN
    /\ acc = [k \in AccessorCalls |-> NoAccess]
    /\ repo = EmptyTable
    /\ calls = [c \in Calls |-> IdleCall]

aside == <<req, handlerRoles, booking, reservations, gw, ex, uniqueEmail, acc, repo,
                   calls>>

\* UsersService.create is called
CreateUser(p) ==
    /\ proc[p].pc = "idle"
    /\ \E email \in {"b@test.com", "c@test.com"} :
          proc' = [proc EXCEPT ![p] =
                     [@ EXCEPT !.pc = "validating", !.op = "create",
                               !.email = email, !.password = "pw3",
                               !.existed =
                                   \E u \in store : u.email = email]]
    /\ UNCHANGED <<store, aside>>

\* validateCreateUser runs its lookup
ValidateCreateUser(p) ==
    /\ proc[p].pc = "validating"
    /\ \E r \in findOne(proc[p].email) \cup {QueryFailed} :
          proc' = [proc EXCEPT ![p] =
                     IF validateCreateUser(r) = "return"
                         THEN [@ EXCEPT !.pc = "validated"]
                         ELSE [@ EXCEPT !.pc = "done",
                                  !.out = Thrown(validateCreateUser(r))]]
    /\ UNCHANGED <<store, aside>>

\* usersRepository.create saves the new user
SaveUser(p) ==
    /\ proc[p].pc = "validated"
    /\ LET user == NewUser(proc[p].email, proc[p].password) IN
          IF uniqueEmail /\ \E u \in store : u.email = user.email
              THEN /\ proc' = [proc EXCEPT ![p] =
                                 [@ EXCEPT !.pc = "done",
                                           !.out = QueryFailed]]
                   /\ store' = store
              ELSE /\ proc' = [proc EXCEPT ![p] =
                                 [@ EXCEPT !.pc = "done",
                                           !.out = Resolved(user)]]
                   /\ store' = store \cup {user}
    /\ UNCHANGED aside

\* UsersService.verifyUser is called and completes
VerifyUser(p) ==
    /\ proc[p].pc = "idle"
    /\ \E email \in Emails, password \in Passwords :
       \E r \in findOne(email) :
          proc' = [proc EXCEPT ![p] =
                     [@ EXCEPT !.pc = "done", !.op = "verifyUser",
                               !.email = email, !.password = password,
                               !.out = verifyUser(r, password)]]
    /\ UNCHANGED <<store, aside>>

\* a guard sends an authenticate call with a credential
CallAuthenticate(p) ==
    /\ proc[p].pc = "idle"
    /\ \E token \in Tokens, g \in {"roles", "plain"} :
          proc' = [proc EXCEPT ![p] =
                     [@ EXCEPT !.pc = "called", !.op = "authenticate",
                               !.token = token,
                               !.caller = CallerRequest(token, g)]]
    /\ UNCHANGED <<store, aside>>

AuthenticateRotating(p) ==
    /\ proc[p].pc = "called"
    /\ LET res == authenticate(Some(proc[p].token)) IN
          /\ proc' = [proc EXCEPT ![p] =
                        [@ EXCEPT !.pc = "done",
                                  !.out = IF res = None
                                              THEN Thrown("rejected")
                                              ELSE Resolved(res[1]),
                                  !.caller = CallerOutcome(@, res)]]
          /\ store' = IF res = None THEN store
                      ELSE (store \ {res[1]}) \cup
                           {[res[1] EXCEPT !.password = Hash("rotated")]}
    /\ UNCHANGED aside

\* the Authority handles the authenticate call and the guard gets the answer
Authenticate(p) ==
    /\ proc[p].pc = "called"
    /\ LET res == authenticate(Some(proc[p].token)) IN
          proc' = [proc EXCEPT ![p] =
                     [@ EXCEPT !.pc = "done",
                               !.out = IF res = None
                                           THEN Thrown("rejected")
                                           ELSE Resolved(res[1]),
                               !.caller = CallerOutcome(@, res)]]
    /\ UNCHANGED <<store, aside>>

AuthorityNext ==
    \E p \in Procs :
        \/ CreateUser(p)
        \/ ValidateCreateUser(p)
        \/ SaveUser(p)
        \/ VerifyUser(p)
        \/ CallAuthenticate(p)
        \/ Authenticate(p)

AuthoritySpec == AuthorityInit /\ [][AuthorityNext]_vars

---------------------------------------------------------------------------
(* CurrentUser on an HTTP or a GraphQL execution context *)

\* the values of the user header: no entry, the empty string, text that is
\* not JSON, the JSON text null, or the JSON text of an identity
NoHeader == [t |-> "undefined", v |-> None]
EmptyText == [t |-> "empty", v |-> None]
NotJson == [t |-> "garbage", v |-> None]
JsonNull == [t |-> "null", v |-> None]
JsonOf(u) == [t |-> "json", v |-> Some(JSONstringify(u))]

UserHeaders ==
    {NoHeader, EmptyText, NotJson, JsonNull} \cup {JsonOf(u) : u \in Users}

\* the execution contexts an accessor call may get
AccessContexts ==
    {[NoAccess EXCEPT !.type = "http", !.user = u] :
        u \in {None} \cup {Some(w) : w \in Users}}
    \cup {[NoAccess EXCEPT !.type = "graphql", !.depth = n] : n \in 0..2}
    \cup {[NoAccess EXCEPT !.type = "graphql", !.depth = 3, !.header = h] :
            h \in UserHeaders}

\* graphqlContext?.req?.headers?.user
ContextUserHeader(c) == IF c.depth < 3 THEN NoHeader ELSE c.header

\* JSON.parse(user): SyntaxError for text that is not JSON
ParseUserHeader(h) ==
    IF h.t = "garbage" THEN [kind |-> "SyntaxError", value |-> None]
    ELSE IF h.t = "null" THEN [kind |-> "value", value |-> None]
    ELSE [kind |-> "value", value |-> Some(JSONparse(h.v[1]))]

\* getCurrentUserByContext of part_003
getCurrentUserByExecutionContext(c) ==
    IF c.type = "http" THEN [kind |-> "value", value |-> c.user]
    ELSE IF ContextUserHeader(c).t \in {"undefined", "empty"}
        THEN [kind |-> "Error", value |-> None]
        ELSE ParseUserHeader(ContextUserHeader(c))

\* a handler with a @CurrentUser() parameter is about to run
AccessorCall(k) ==
    /\ acc[k].pc = "idle"
    /\ \E c \in AccessContexts :
          acc' = [acc EXCEPT ![k] = [c EXCEPT !.pc = "called"]]
    /\ UNCHANGED <<req, outside_acc>>

\* the accessor returns or throws
AccessorReturn(k) ==
    /\ acc[k].pc = "called"
    /\ acc' = [acc EXCEPT ![k] =
                 [@ EXCEPT !.pc = "done",
                           !.out = getCurrentUserByExecutionContext(acc[k])]]
    /\ UNCHANGED <<req, outside_acc>>

AccessorNext ==
    \E k \in AccessorCalls : AccessorCall(k) \/ AccessorReturn(k)

AccessorSpec == Init /\ [][AccessorNext]_vars

---------------------------------------------------------------------------
(* AbstractRepository over the reservations table *)

\* new Date() at the moment of a create, in milliseconds
Clock == {10000, 10400}

\* a 'timestamp' column keeps whole seconds: the value is rounded on insert
ColumnTimestamp(t) == ((t + 500) \div 1000) * 1000

ById(n) == [NoFields EXCEPT !.id = Some(n)]
ByInvoice(v) == [NoFields EXCEPT !.invoiceId = Some(v)]
SetInvoice(v) == [NoFields EXCEPT !.invoiceId = Some(v)]
SetUser(n) == [NoFields EXCEPT !.userId = Some(n)]

\* the filters and partial entities the callers pass
Wheres == {ById(1), ByInvoice("pi_1")}
Partials == {SetInvoice("pi_2"), SetUser(2)}

\* FindOptionsWhere: every field the filter names must be equal
Matches(row, where) ==
    /\ where.id # None => row.id = where.id[1]
    /\ where.invoiceId # None => row.invoiceId = where.invoiceId[1]
    /\ where.userId # None => row.userId = where.userId[1]

Matching(rows, where) == {r \in rows : Matches(r, where)}

\* a row after entityRepository.update set the fields of the partial entity
Updated(row, partial) ==
    [row EXCEPT
        !.invoiceId = IF partial.invoiceId # None
                          THEN partial.invoiceId[1] ELSE @,
        !.userId = IF partial.userId # None THEN partial.userId[1] ELSE @]

Found(e) == [kind |-> "value", error |-> "none", entity |-> Some(e)]
NotFound ==
    [kind |-> "error", error |-> "NotFoundException: Entity was not found",
     entity |-> None]
Void == [kind |-> "void", error |-> "none", entity |-> None]

\* AbstractRepository.findOne(where) on the rows as they are now: one of
\* the matching rows, or NotFoundException
RepoFindOne(rows, where) ==
    IF Matching(rows, where) = {}
        THEN {NotFound}
        ELSE {Found(r) : r \in Matching(rows, where)}

\* the entity ReservationsService.create hands to the repository
NewReservation(now, userId, invoiceId) ==
    [id |-> 0, userId |-> userId, invoiceId |-> invoiceId,
     timestamp |-> now]

\* entityRepository.save(newEntity): the entity it returns is the one it
\* was given, with the generated id
Saved(t, e) == [e EXCEPT !.id = t.nextId]

\* the row the insert leaves in the table
Inserted(t, e) ==
    [e EXCEPT !.id = t.nextId, !.timestamp = ColumnTimestamp(e.timestamp)]

\* AbstractRepository.create
RepoCreate(c) ==
    /\ calls[c].pc = "idle"
    /\ \E now \in Clock, u \in {1}, inv \in {"pi_1"} :
          LET e == NewReservation(now, u, inv) IN
          /\ repo' = [rows |-> repo.rows \cup {Inserted(repo, e)},
                      nextId |-> repo.nextId + 1]
          /\ calls' = [calls EXCEPT ![c] =
                         [@ EXCEPT !.pc = "created", !.op = "create",
                                   !.created = Found(Saved(repo, e))]]
    /\ repo.nextId <= MaxRows
    /\ UNCHANGED outside_repo

\* ReservationsService.findOne(id) with the id that create returned
RepoGet(c) ==
    /\ calls[c].pc = "created"
    /\ \E r \in RepoFindOne(repo.rows, ById(calls[c].created.entity[1].id)) :
          calls' = [calls EXCEPT ![c] = [@ EXCEPT !.pc = "done", !.out = r]]
    /\ UNCHANGED <<repo, outside_repo>>

\* findOneAndUpdate, first half: entityRepository.update and the check of
\* updateResult.affected
RepoUpdate(c) ==
    /\ calls[c].pc = "idle"
    /\ \E w \in Wheres, p \in Partials :
          LET hit == Matching(repo.rows, w) IN
          /\ repo' = [repo EXCEPT !.rows =
                         (@ \ hit) \cup {Updated(r, p) : r \in hit}]
          /\ calls' = [calls EXCEPT ![c] =
                         [@ EXCEPT !.op = "findOneAndUpdate",
                                   !.where = w, !.partial = p,
                                   !.matched = hit,
                                   !.pc = IF hit = {} THEN "done"
                                                      ELSE "updated",
                                   !.out = IF hit = {} THEN NotFound
                                                       ELSE NoReply]]
    /\ UNCHANGED outside_repo

\* findOneAndUpdate, second half: return this.findOne(where)
RepoReread(c) ==
    /\ calls[c].pc = "updated"
    /\ \E r \in RepoFindOne(repo.rows, calls[c].where) :
          calls' = [calls EXCEPT ![c] = [@ EXCEPT !.pc = "done", !.out = r]]
    /\ UNCHANGED <<repo, outside_repo>>

\* findOneAndDelete: await this.entityRepository.delete(where)
RepoDelete(c) ==
    /\ calls[c].pc = "idle"
    /\ \E w \in Wheres :
          LET hit == Matching(repo.rows, w) IN
          /\ repo' = [repo EXCEPT !.rows = @ \ hit]
          /\ calls' = [calls EXCEPT ![c] =
                         [@ EXCEPT !.op = "findOneAndDelete", !.where = w,
                                   !.matched = hit, !.pc = "done",
                                   !.out = Void]]
    /\ UNCHANGED outside_repo

\* the caller has its answer and the slot serves the next call
RepoFinish(c) ==
    /\ calls[c].pc = "done"
    /\ calls' = [calls EXCEPT ![c] = IdleCall]
    /\ UNCHANGED <<repo, outside_repo>>

RepositoryNext ==
    \E c \in Calls :
        \/ RepoCreate(c)
        \/ RepoGet(c)
        \/ RepoUpdate(c)
        \/ RepoReread(c)
        \/ RepoDelete(c)
        \/ RepoFinish(c)

RepositoryInit ==
    /\ req = [i \in Requests |-> IdleRequest]
    /\ handlerRoles = None
    /\ store = Users
    /\ booking = [i \in Requests |-> NoBooking]
    /\ reservations = <<>>
    /\ gw = [g \in GatewayRequests |-> IdleGateway]
    /\ ex = NoExtraction
    /\ proc = [p \in Procs |-> IdleProc]
    /\ uniqueEmail = TRUE
    /\ acc = [k \in AccessorCalls |-> NoAccess]
    /\ repo = EmptyTable
    /\ calls = [c \in Calls |-> IdleCall]

RepositorySpec == RepositoryInit /\ [][RepositoryNext]_vars

---------------------------------------------------------------------------
(* Properties *)

Guarded(i) == req[i].guard # "none"

\* the reply of the Authority reached the guard's pipe as an identity
Verified(i) == InSeq("inject", req[i].trace) \/ InSeq("roleCheck", req[i].trace)

\* the role names of an identity, as a set; absent roles are no roles
IdentityRoleSet(u) ==
    IF u.roles = None THEN {}
    ELSE {u.roles[1][k].name : k \in 1..Len(u.roles[1])}

\* the declared requirement as a set of role names
RequiredSet(roles) ==
    IF roles = None THEN {} ELSE {roles[1][k] : k \in 1..Len(roles[1])}

\* C1: a guarded request that carries no credential (neither the cookie
\* Authentication nor the header authentication holds a non-empty string) is
\* denied, and no authenticate call is ever issued for it.
C1_NoCredentialDenied ==
    \A i \in Requests :
        ( /\ Guarded(i)
          /\ req[i].pc \notin {"idle", "arrived"}
          /\ ~Truthy(req[i].cookie)
          /\ ~Truthy(req[i].header) )
        => /\ req[i].pc = "denied"
           /\ req[i].result = "false"
           /\ req[i].sends = 0
           /\ req[i].net = "none"
           /\ ~InSeq("send", req[i].trace)

C1_Witness ==
    \E i \in Requests :
        /\ Guarded(i)
        /\ req[i].cookie = None
        /\ req[i].header = None
        /\ req[i].pc = "denied"

\* C2: request.user is set only if the Authority returned an identity for
\* the request's credential and, when the handler declares a role
\* requirement, the identity holds one of the required roles; and then the
\* guard's outcome is allow.
C2_UserOnlyWhenAllowed ==
    \A i \in Requests :
        req[i].user # None
        => /\ req[i].user = authenticate(req[i].jwt)
           /\ req[i].result = "true"
           /\ RequiredSet(handlerRoles) # {}
                => IdentityRoleSet(req[i].user[1]) \cap RequiredSet(handlerRoles)
                      # {}

\* C3: every failure of the authenticate call (the Authority rejects the
\* credential, or the transport fails) makes the guard yield false; nothing
\* is thrown out of canActivate and request.user stays unset.
C3_VerifyFailureIsDenial ==
    \A i \in Requests :
        /\ req[i].result # "throw"
        /\ req[i].err \in {"rejected", "unreachable"}
            => /\ req[i].pc = "denied"
               /\ req[i].result = "false"
               /\ req[i].user = None

C3_Witness ==
    \E i, j \in Requests :
        /\ req[i].err = "rejected"
        /\ req[i].result = "false"
        /\ req[j].err = "unreachable"
        /\ req[j].result = "false"

\* C4: in the guard that evaluates roles, for a verified identity and a
\* non-empty declared requirement, the guard allows iff at least one
\* required role name is in the identity's role set.
C4_RolesOrSemantics ==
    \A i \in Requests :
        ( /\ req[i].guard = "roles"
          /\ Verified(i)
          /\ RequiredSet(handlerRoles) # {} )
        => ( req[i].result = "true"
             <=> IdentityRoleSet(authenticate(req[i].jwt)[1])
                    \cap RequiredSet(handlerRoles) # {} )

C4_Witness ==
    \E i \in Requests :
        /\ req[i].guard = "roles"
        /\ handlerRoles = Some(<<"A", "B">>)
        /\ req[i].result = "true"
        /\ IdentityRoleSet(req[i].user[1]) = {"A"}

\* C5: in the guard that evaluates roles, a verified identity is allowed
\* when no roles metadata is declared and when the declared list is empty.
C5_EmptyRequirementAllows ==
    \A i \in Requests :
        ( /\ req[i].guard = "roles"
          /\ Verified(i)
          /\ RequiredSet(handlerRoles) = {} )
        => req[i].result = "true"

\* C6: a request whose credential the Authority verified and whose identity
\* satisfies the empty or satisfied requirement is allowed, and the
\* CurrentUser accessor then returns the identity the Authority returned.
C6_AllowedIdentityRetrievable ==
    \A i \in Requests :
        ( /\ req[i].guard = "roles"
          /\ Verified(i)
          /\ \/ RequiredSet(handlerRoles) = {}
             \/ IdentityRoleSet(authenticate(req[i].jwt)[1])
                    \cap RequiredSet(handlerRoles) # {} )
        => /\ req[i].result = "true"
           /\ req[i].pc = "handled"
                => req[i].got = [kind |-> "value",
                                 value |-> authenticate(req[i].jwt)]

\* C7: the CurrentUser accessor fails with a missing-identity error when
\* it runs on a request the guard never authorized; it never returns an
\* absent identity as a value.
C7_AccessorFailsWithoutIdentity ==
    \A i \in Requests :
        (req[i].pc = "handled" /\ req[i].result # "true")
        => req[i].got.kind = "error"

\* C8: every request that enters Verifying eventually reaches Authorized or
\* Denied, also when the Authority never replies.
C8_VerifyingTerminates ==
    \A i \in Requests :
        (req[i].pc = "verifying")
            ~> (req[i].pc \in {"authorized", "denied", "handled"})

GuardOrder == <<"extract", "send", "reply", "roleCheck", "inject">>

\* C9: the guard's steps run in the order extraction, verification,
\* authorization, context injection; on a path that ends in allow none of
\* them is skipped.
C9_StepsInOrder ==
    \A i \in Requests :
        /\ Len(req[i].trace) <= Len(GuardOrder)
        /\ req[i].trace = SubSeq(GuardOrder, 1, Len(req[i].trace))
        /\ req[i].result = "true" => req[i].trace = GuardOrder

\* C10: at most one authenticate call is issued per request, and after a
\* failed call none is issued again for that request.
C10_AtMostOneCall ==
    \A i \in Requests :
        /\ req[i].sends <= 1
        /\ req[i].err # "none" => req[i].sends = 1 /\ req[i].net = "none"

C10_Witness ==
    \E i \in Requests :
        /\ req[i].err = "unreachable"
        /\ req[i].pc = "denied"
        /\ req[i].sends = 1

\* C11: for a request the guard denies (no credential, or a failed or
\* rejected verification, or an unmet role requirement) the handler is never
\* invoked: no charge is requested and no reservation is persisted for it.
C11_DeniedHasNoSideEffect ==
    \A i \in Requests :
        ( /\ Guarded(i)
          /\ \/ req[i].result = "false"
             \/ req[i].err # "none"
             \/ req[i].pc \notin {"idle", "arrived"}
                  /\ ~Truthy(req[i].cookie) /\ ~Truthy(req[i].header) )
        => /\ req[i].got = NotCalled
           /\ booking[i] = NoBooking
           /\ \A k \in 1..Len(reservations) : reservations[k].request # i

C11_Witness ==
    \E i, j \in Requests :
        /\ Guarded(i)
        /\ req[i].cookie = None /\ req[i].header = None
        /\ req[i].result = "false"
        /\ booking[j].pc = "persisted"
        /\ Len(reservations) = 1

\* C12: any two requests that fail verification, for whatever reasons, give
\* the caller the same outcome: a bare denial that does not tell which
\* layer failed.
C12_DenialsIndistinguishable ==
    \A g, h \in GatewayRequests :
        (gw[g].out.kind = "Unauthorized" /\ gw[h].out.kind = "Unauthorized")
        => gw[g].out = gw[h].out

\* C13: the extractor returns the cookie Authentication when it is a
\* string, else the request-attached Authentication when it is a string,
\* else the header value when there is one, else null.
C13_ExtractorPrecedence ==
    (ex.out # NotExtracted /\ ex.out.kind # "throw")
    => ex.out =
         IF ex.cookies # None /\ ex.cookies[1].t = "string"
             THEN Returned(ex.cookies[1])
         ELSE IF ex.field.t = "string" THEN Returned(ex.field)
         ELSE IF ex.headers # None /\ ex.headers[1] # Undef
             THEN Returned(ex.headers[1])
         ELSE ReturnedNull

\* C14: the extractor never throws; when no place holds a credential it
\* returns null, also for a request without cookie map and header map.
C14_ExtractorNeverThrows ==
    /\ ex.out.kind # "throw"
    /\ ( /\ ex.out # NotExtracted
         /\ ex.cookies = None /\ ex.field.t # "string" /\ ex.headers = None )
       => ex.out = ReturnedNull

\* C15: a failed verifyUser gives the caller the same error whether the
\* email is unknown or the password is wrong: any two failed login attempts
\* have identical outcomes.
C15_LoginFailuresIdentical ==
    \A p, q \in Procs :
        ( /\ proc[p].op = "verifyUser" /\ proc[p].out.kind = "error"
          /\ proc[q].op = "verifyUser" /\ proc[q].out.kind = "error" )
        => proc[p].out = proc[q].out

\* C16: an authenticate call for a credential whose subject id is not in
\* the user store returns no identity: it fails, the store is unchanged and
\* the guard that called denies, leaving no user on its request.
C16_UnknownSubjectRejected ==
    [][\A p \in Procs :
          (proc[p].pc = "called" /\ proc'[p].pc = "done")
          => /\ store' = store
             /\ (\A u \in store : u.id # TokenSubject(proc[p].token))
                => /\ proc'[p].out.kind = "error"
                   /\ proc'[p].out.user = None
                   /\ proc'[p].caller.result = "false"
                   /\ proc'[p].caller.user = None]_vars

C16_Witness ==
    \E p \in Procs :
        /\ proc[p].op = "authenticate" /\ proc[p].pc = "done"
        /\ proc[p].token = "tokC"
        /\ \A u \in store : u.id # TokenSubject("tokC")
        /\ proc[p].out.kind = "error"
        /\ proc[p].caller.result = "false"

\* C17: whatever the interleaving of create calls, no two users in the
\* store have the same email, and a create for an email that was already
\* registered fails with 'User already exists'.
C17_EmailUnique ==
    /\ \A u, v \in store : u.email = v.email => u = v
    /\ \A p \in Procs :
          (proc[p].op = "create" /\ proc[p].pc = "done" /\ proc[p].existed)
          => proc[p].out =
               Thrown("UnprocessableEntityException: User already exists")

\* C18: for a fixed credential, a fixed declared role requirement and a
\* fixed Authority state, every guard variant that got the Authority's
\* answer gives the same allow/deny outcome and attaches the same identity.
C18_VariantsAgree ==
    \A i, j \in Requests :
        ( /\ Guarded(i) /\ Guarded(j)
          /\ req[i].cookie = req[j].cookie /\ req[i].header = req[j].header
          /\ req[i].result # "none" /\ req[j].result # "none"
          /\ req[i].err # "unreachable" /\ req[j].err # "unreachable" )
        => /\ req[i].result = req[j].result
           /\ req[i].user = req[j].user

\* a plain HTTP handler behind guard variant v, for a request carrying the
\* credential in its authentication header, once the Authority has answered
HttpGuardRun(header, v) ==
    LET a == Activate([IdleRequest EXCEPT !.pc = "arrived",
                                          !.header = header, !.guard = v])
    IN IF a.pc = "denied" THEN a
       ELSE CallerOutcome(a, authenticate(a.jwt))

\* C19: for the same credential, declared role requirement and user store,
\* a GraphQL resolver behind the gateway and a plain HTTP handler behind the
\* guard get the same allow/deny decision, and the resolver's CurrentUser
\* is the identity the guard puts on the HTTP request.
C19_EntryPointsAgree ==
    \A g \in GatewayRequests, v \in {"roles", "plain"} :
        ( /\ gw[g].pc \in {"context", "thrown"}
          /\ gw[g].out.detail # "unreachable" )
        => /\ (gw[g].pc = "context")
                <=> (HttpGuardRun(gw[g].header, v).result = "true")
           /\ \A k \in 1..Len(gw[g].fetches) :
                 gw[g].fetches[k].got # NotCalled
                 => gw[g].fetches[k].got.value
                      = HttpGuardRun(gw[g].header, v).user

C21_NoHeaderEmptyContext ==
    \A g \in GatewayRequests :
        /\ (gw[g].header = None /\ gw[g].pc \notin {"idle", "arrived"})
              => /\ gw[g].sends = 0
                 /\ gw[g].pc = "context"
                 /\ gw[g].ctxUser = None
        /\ gw[g].out.kind = "Unauthorized" => gw[g].header # None

\* C22: on a GraphQL context that lacks the context argument, req, headers
\* or a user header holding a serialized identity, the accessor produces a
\* denial, never an unclassified runtime error.
C22_MalformedContextDenied ==
    \A k \in AccessorCalls :
        ( /\ acc[k].pc = "done" /\ acc[k].type = "graphql"
          /\ ContextUserHeader(acc[k]).t # "json" )
        => acc[k].out.kind = "Unauthorized"

\* C23: a reservation fetched by the id that create returned is equal,
\* field for field, to the reservation create returned.
C23_CreateGetRoundTrip ==
    \A c \in Calls :
        (calls[c].op = "create" /\ calls[c].pc = "done")
        => calls[c].out = calls[c].created

\* C26: findOneAndDelete fails with NotFoundException when no entity
\* matches the filter; otherwise it removes the matching entity and
\* returns it.
C26_DeleteReturnsEntity ==
    \A c \in Calls :
        (calls[c].op = "findOneAndDelete" /\ calls[c].pc = "done")
        => IF calls[c].matched = {}
               THEN calls[c].out = NotFound
               ELSE /\ calls[c].out.kind = "value"
                    /\ calls[c].out.entity[1] \in calls[c].matched

\* C27: findOneAndUpdate returns the updated entity whenever an entity
\* matched the filter, and fails with NotFoundException when none did.
C27_UpdateReturnsUpdated ==
    \A c \in Calls :
        (calls[c].op = "findOneAndUpdate" /\ calls[c].pc = "done")
        => IF calls[c].matched = {}
               THEN calls[c].out = NotFound
               ELSE /\ calls[c].out.kind = "value"
                    /\ calls[c].out.entity[1] \in
                         {Updated(r, calls[c].partial) :
                             r \in calls[c].matched}

\* C24: every persisted reservation belongs to a request whose credential
\* the Authority resolved; its userId is the id of that identity and its
\* invoiceId is the id the payment charge returned for that request.
C24_ReservationOwner ==
    \A k \in 1..Len(reservations) :
        LET i == reservations[k].request IN
        /\ authenticate(req[i].jwt) # None
        /\ reservations[k].userId = authenticate(req[i].jwt)[1].id
        /\ booking[i].charge = Some(reservations[k].invoiceId)

C24_Witness ==
    \E k \in 1..Len(reservations) :
        /\ reservations[k].userId = 2
        /\ reservations[k].invoiceId = "pi_2"
        /\ req[reservations[k].request].header = Some("tokB")
        /\ req[reservations[k].request].result = "true"

\* C28: a reservation exists for a request only once the payment charge of
\* that request has replied; while the charge is pending, and after it
\* failed, no reservation is persisted for the request.
C28_PersistOnlyAfterCharge ==
    \A i \in Requests :
        /\ (\E k \in 1..Len(reservations) : reservations[k].request = i)
              => (booking[i].pc = "persisted" /\ booking[i].charge # None)
        /\ booking[i].pc \in {"charging", "failed"}
              => \A k \in 1..Len(reservations) : reservations[k].request # i

C28_Witness ==
    \E i, j \in Requests :
        /\ booking[i].pc = "failed"
        /\ booking[j].pc = "persisted"
        /\ Len(reservations) = 1
        /\ reservations[1].request = j

\* C25: verifying a valid credential again gives the identity the earlier
\* verification of the same credential gave, whatever ran in between, and
\* a verification leaves the user store as it was.
C25_VerifyIdempotent ==
    [][\A p \in Procs :
          (proc[p].pc = "called" /\ proc'[p].pc = "done")
          => /\ store' = store
             /\ \A q \in Procs :
                   ( /\ proc[q].op = "authenticate" /\ proc[q].pc = "done"
                     /\ proc[q].token = proc[p].token
                     /\ proc[q].out.kind = "value"
                     /\ proc'[p].out.kind = "value" )
                   => proc'[p].out = proc[q].out]_vars

C25_Witness ==
    \E p, q \in Procs :
        /\ p # q
        /\ proc[p].op = "authenticate" /\ proc[q].op = "authenticate"
        /\ proc[p].pc = "done" /\ proc[q].pc = "done"
        /\ proc[p].token = "tokA" /\ proc[q].token = "tokA"
        /\ proc[p].out.kind = "value"
        /\ proc[p].out = proc[q].out

\* the decision the guard variant of request i reaches on the Authority's
\* answer for the request's own credential
OwnDecision(i) ==
    LET res == authenticate(ExtractJwt(req[i].cookie, req[i].header)) IN
    IF res = None THEN "false"
    ELSE IF req[i].guard = "plain" THEN "true"
    ELSE IF RoleCheck(handlerRoles, res[1]) = "ok" THEN "true"
    ELSE "false"

\* C29: whatever the interleaving of the replies of concurrently pending
\* requests, the identity attached to a request is the one the Authority
\* resolved for that request's own credential, and the request's outcome
\* after the Authority's answer is the one its own credential gives.
C29_RequestsIndependent ==
    \A i \in Requests :
        /\ (Guarded(i) /\ req[i].user # None)
              => req[i].user
                   = authenticate(ExtractJwt(req[i].cookie, req[i].header))
        /\ (Guarded(i) /\ InSeq("reply", req[i].trace)
                       /\ req[i].err # "unreachable")
              => req[i].result = OwnDecision(i)

C29_Witness ==
    \E i, j \in Requests :
        /\ Guarded(i) /\ Guarded(j)
        /\ req[i].jwt = Some("tokA") /\ req[j].jwt = Some("tokB")
        /\ req[i].user = authenticate(Some("tokA"))
        /\ req[j].user = authenticate(Some("tokB"))
        /\ req[i].result = "true" /\ req[j].result = "true"

\* C30: the role-evaluating guard denies a verified identity whose roles
\* are absent or empty for every non-empty declared requirement, sets no
\* request.user, and the outcome is the ordinary denial.
C30_NoRolesDenied ==
    \A i \in Requests :
        ( /\ req[i].guard = "roles"
          /\ InSeq("roleCheck", req[i].trace)
          /\ RequiredSet(handlerRoles) # {}
          /\ IdentityRoleSet(authenticate(req[i].jwt)[1]) = {} )
        => /\ req[i].pc = "denied"
           /\ req[i].result = "false"
           /\ req[i].user = None

C30_Witness ==
    \E i, j \in Requests :
        /\ req[i].guard = "roles" /\ req[j].guard = "roles"
        /\ RequiredSet(handlerRoles) # {}
        /\ req[i].jwt = Some("tokB") /\ req[j].jwt = Some("tokD")
        /\ InSeq("roleCheck", req[i].trace)
        /\ InSeq("roleCheck", req[j].trace)
        /\ req[i].result = "false" /\ req[j].result = "false"

====
